---- MODULE Spec2Model ----
(***************************************************************************)
(* Model of scripts/calculate_query_combinations.py.                       *)
(*                                                                         *)
(* The script holds four module-level package/release lists and three      *)
(* two-valued flag lists, and one function, calculate_combinations(),      *)
(* which counts query combinations by nested iteration, prints a report    *)
(* and returns the grand total.  The function is modelled statement by     *)
(* statement: pc is the line about to run, iter the position of each       *)
(* for-loop's iterator, the counters are the function's locals.            *)
(*                                                                         *)
(* The module-level lists are the function's only inputs.  Init draws      *)
(* them from: the literal lists, every combination of short prefixes of    *)
(* the literal lists, and two long release lists that put the grand total  *)
(* just below and exactly on the threshold.  A driver (the __main__ block, *)
(* extended to call more than once and to add one element to a list        *)
(* between two calls) records each call's output and return value.         *)
(*                                                                         *)
(* Printed text is modelled without the non-ASCII pictographs and bullets  *)
(* that start some of the source's lines; everything else of a line is     *)
(* kept, numbers formatted as the f-strings format them.                   *)
(***************************************************************************)
EXTENDS Integers, Sequences, FiniteSets, TLC

(* ---------------- bounds ---------------- *)

\* longest list prefix drawn for the bounded inputs
MaxLen == 2

\* how many times the driver calls calculate_combinations()
MaxCalls == 2

\* longest list prefix drawn for the inputs of the runs checked for
\* termination
MaxLenFair == 1

(* ---------------- module-level literals (lines 7-72) ---------------- *)

LIT_NVIDIA_DRIVERS ==
    << "nvidia-graphics-drivers-535",
       "nvidia-graphics-drivers-535-server",
       "nvidia-graphics-drivers-550",
       "nvidia-graphics-drivers-550-server",
       "nvidia-graphics-drivers-570",
       "nvidia-graphics-drivers-570-server",
       "nvidia-graphics-drivers-575",
       "nvidia-graphics-drivers-575-server",
       "nvidia-graphics-drivers-470",
       "nvidia-graphics-drivers-470-server",
       "nvidia-graphics-drivers-390",
       "nvidia-graphics-drivers-460",
       "nvidia-graphics-drivers-450",
       "nvidia-graphics-drivers-465",
       "nvidia-graphics-drivers" >>

LIT_LRM_PACKAGES ==
    << "linux-restricted-modules",
       "linux-restricted-modules-aws",
       "linux-restricted-modules-azure",
       "linux-restricted-modules-gcp",
       "linux-restricted-modules-gke",
       "linux-restricted-modules-oem",
       "linux-restricted-modules-raspi",
       "linux" >>

LIT_BINARY_PACKAGES ==
    << "nvidia-driver-535",
       "nvidia-driver-550",
       "nvidia-driver-570",
       "nvidia-driver-575",
       "nvidia-driver-470",
       "nvidia-driver-390",
       "nvidia-driver-460",
       "nvidia-driver-450",
       "nvidia-driver-465",
       "libnvidia-gl-535",
       "libnvidia-gl-550",
       "libnvidia-gl-570",
       "nvidia-dkms-535",
       "nvidia-dkms-550",
       "nvidia-dkms-570" >>

LIT_UBUNTU_SERIES ==
    << "bionic", "focal", "jammy", "kinetic", "lunar",
       "mantic", "noble", "oracular", "plucky", "questing" >>

LIT_OPERATIONS == << "getPublishedSources", "getPublishedBinaries" >>

LIT_DATE_FILTERS == << TRUE, FALSE >>

LIT_EXACT_MATCH == << TRUE, FALSE >>

LIT_ORDER_BY_DATE == << TRUE, FALSE >>

\* the threshold of the final comparison (line 155)
THRESHOLD == 888

(* ---------------- state ---------------- *)

VARIABLES
    NVIDIA_DRIVERS, LRM_PACKAGES, BINARY_PACKAGES, UBUNTU_SERIES,
    OPERATIONS, DATE_FILTERS, EXACT_MATCH, ORDER_BY_DATE,
    pc,
    iter,
    total, sources_count, series_sources_count, binaries_count,
    series_binaries_count, other_endpoints, launchpad_total, grand_total,
    calls, returns, outputs, grown

lists == << NVIDIA_DRIVERS, LRM_PACKAGES, BINARY_PACKAGES, UBUNTU_SERIES,
            OPERATIONS, DATE_FILTERS, EXACT_MATCH, ORDER_BY_DATE >>

locals == << total, sources_count, series_sources_count, binaries_count,
             series_binaries_count, other_endpoints, launchpad_total,
             grand_total >>

driver == << calls, returns, grown >>

vars == << lists, pc, iter, locals, driver, outputs >>

\* a local name that no assignment of the current call has bound yet
Unbound == 0 - 1

\* the iterator positions of a call that has entered no loop
NoIter == [series |-> 0, package |-> 0, date_filter |-> 0, exact |-> 0,
           order |-> 0]

(* ---------------- inputs ---------------- *)

\* a list of n elements taken from lit in order, wrapping around
Sized(lit, n) == [i \in 1..n |-> lit[((i - 1) % Len(lit)) + 1]]

\* the sizes <<a, b, c, d>> of the driver, kernel-module, binary and release
\* lists the inputs are drawn with
LiteralSizes == << Len(LIT_NVIDIA_DRIVERS), Len(LIT_LRM_PACKAGES),
                   Len(LIT_BINARY_PACKAGES), Len(LIT_UBUNTU_SERIES) >>

BoundedSizes == (0..MaxLen) \X (0..MaxLen) \X (0..MaxLen) \X (0..MaxLen)

\* no packages and d releases give a grand total of d + 3
ThresholdSizes == { << 0, 0, 0, THRESHOLD - 4 >>, << 0, 0, 0, THRESHOLD - 3 >> }

InputSizes == {LiteralSizes} \cup BoundedSizes \cup ThresholdSizes

\* the inputs of the runs checked for termination
FairSizes ==
    {LiteralSizes}
       \cup ((0..MaxLenFair) \X (0..MaxLenFair) \X (0..MaxLenFair)
                \X (0..MaxLenFair))

\* the element the driver adds to a list between two calls
NewElement == "added"

GrowKinds == {"drivers", "lrm", "binary", "series"}

(* ---------------- formatting ---------------- *)

RECURSIVE Repeat(_, _)
\* Python's  s * n  on a string
Repeat(s, n) == IF n <= 0 THEN "" ELSE s \o Repeat(s, n - 1)

\* a group of three digits after a thousands separator
Pad3(n) == IF n < 10 THEN "00" \o ToString(n)
           ELSE IF n < 100 THEN "0" \o ToString(n)
           ELSE ToString(n)

RECURSIVE FormatComma(_)
\* Python's  f"{n:,}"  for n >= 0
FormatComma(n) == IF n < 1000 THEN ToString(n)
                  ELSE FormatComma(n \div 1000) \o "," \o Pad3(n % 1000)

\* print(line): the line goes to the output of the call in progress
Emit(out, lines) == [out EXCEPT ![calls] = @ \o lines]

\* the state after the module's top level has run down to line 164, the
\* four lists having the sizes of one tuple of sizes
InitWith(sizes) ==
    /\ \E sz \in sizes :
          /\ NVIDIA_DRIVERS = Sized(LIT_NVIDIA_DRIVERS, sz[1])
          /\ LRM_PACKAGES = Sized(LIT_LRM_PACKAGES, sz[2])
          /\ BINARY_PACKAGES = Sized(LIT_BINARY_PACKAGES, sz[3])
          /\ UBUNTU_SERIES = Sized(LIT_UBUNTU_SERIES, sz[4])
    /\ OPERATIONS = LIT_OPERATIONS
    /\ DATE_FILTERS = LIT_DATE_FILTERS
    /\ EXACT_MATCH = LIT_EXACT_MATCH
    /\ ORDER_BY_DATE = LIT_ORDER_BY_DATE
    /\ pc = "idle"
    /\ iter = NoIter
    /\ total = Unbound
    /\ sources_count = Unbound
    /\ series_sources_count = Unbound
    /\ binaries_count = Unbound
    /\ series_binaries_count = Unbound
    /\ other_endpoints = Unbound
    /\ launchpad_total = Unbound
    /\ grand_total = Unbound
    /\ calls = 0
    /\ returns = << >>
    /\ outputs = << >>
    /\ grown = << "none", 0 >>

Init == InitWith(InputSizes)

FairInit == InitWith(FairSizes)

(* ---------------- the iterables of the for statements ---------------- *)

\* slip: the kernel-module packages are left out of the global source loop
Iterable84_DriversOnly == NVIDIA_DRIVERS

\* line 84: NVIDIA_DRIVERS + LRM_PACKAGES
Iterable84 == NVIDIA_DRIVERS \o LRM_PACKAGES

\* slip: the kernel-module packages are left out of the series source loop
Iterable95_DriversOnly == NVIDIA_DRIVERS

\* line 95: NVIDIA_DRIVERS + LRM_PACKAGES, built anew for each release
Iterable95 == NVIDIA_DRIVERS \o LRM_PACKAGES

\* slip: the global binary loop also runs over the order-by-date flag
Iterable108_WithOrder == EXACT_MATCH \o ORDER_BY_DATE

\* lines 108 and 117: the binary phases iterate over EXACT_MATCH alone
Iterable108 == EXACT_MATCH

Iterable117 == EXACT_MATCH

\* slip: one kernel endpoint counted instead of two
OtherEndpoints_OneKernel(series) == Len(series) + 1 + 1

\* lines 123-132: other_endpoints = 0, += len(UBUNTU_SERIES), += 1, += 2
OtherEndpoints(series) ==
    LET o123 == 0
        o126 == o123 + Len(series)
        o129 == o126 + 1
        o132 == o129 + 2
    IN  o132

\* slip: the series binary count is left out of the sum
LaunchpadTotal_NoSeriesBinary(s, ss, b, sb) == s + ss + b

\* line 137
LaunchpadTotal(s, ss, b, sb) == s + ss + b + sb

\* slip: the other endpoints are left out of the grand total
GrandTotal_NoOther(lp, other) == lp

\* line 138
GrandTotal(lp, other) == lp + other

\* a for statement at pc = here over iterable: bind the next element and go
\* to the first statement of the body, or leave the loop when the iterator is
\* exhausted.  enter names the loop (if any) whose for statement is the
\* first statement of the body: reaching it from above makes a new iterator.
For(name, iterable, here, body, exit, enter) ==
    /\ pc = here
    /\ IF iter[name] < Len(iterable)
          THEN /\ iter' = [n \in DOMAIN iter |->
                              IF n = name THEN iter[n] + 1
                              ELSE IF n \in enter THEN 0
                              ELSE iter[n]]
               /\ pc' = body
          ELSE /\ pc' = exit
               /\ UNCHANGED iter

\* counter += 1 at pc = here, then back to the innermost for statement;
\* reading a local that was never assigned raises UnboundLocalError
Increment(counter, here, back) ==
    /\ pc = here
    /\ IF counter # Unbound
          THEN /\ counter' = counter + 1
               /\ pc' = back
          ELSE /\ pc' = "failed"
               /\ UNCHANGED counter

(* ---------------- the driver (lines 164-165) ---------------- *)

\* line 165: calculate_combinations() is called; the new frame has no local
\* bound and the call's output starts empty
Invoke ==
    /\ pc = "idle"
    /\ calls < MaxCalls
    /\ calls' = calls + 1
    /\ outputs' = Append(outputs, << >>)
    /\ pc' = "L75"
    /\ iter' = NoIter
    /\ UNCHANGED << lists, locals, returns, grown >>

\* between two calls the driver adds one element to one of the four lists
\* (once); grown records which list and after how many calls
Grow ==
    /\ pc = "idle"
    /\ calls >= 1
    /\ calls < MaxCalls
    /\ grown[1] = "none"
    /\ \E k \in GrowKinds :
          /\ grown' = << k, calls >>
          /\ NVIDIA_DRIVERS' = IF k = "drivers"
                                  THEN Append(NVIDIA_DRIVERS, NewElement)
                                  ELSE NVIDIA_DRIVERS
          /\ LRM_PACKAGES' = IF k = "lrm"
                                THEN Append(LRM_PACKAGES, NewElement)
                                ELSE LRM_PACKAGES
          /\ BINARY_PACKAGES' = IF k = "binary"
                                   THEN Append(BINARY_PACKAGES, NewElement)
                                   ELSE BINARY_PACKAGES
          /\ UBUNTU_SERIES' = IF k = "series"
                                 THEN Append(UBUNTU_SERIES, NewElement)
                                 ELSE UBUNTU_SERIES
    /\ UNCHANGED << OPERATIONS, DATE_FILTERS, EXACT_MATCH, ORDER_BY_DATE,
                    pc, iter, locals, calls, returns, outputs >>

(* ---------------- calculate_combinations (lines 74-162) ---------------- *)

\* slip: the kernel-module packages are appended to NVIDIA_DRIVERS in place
Start_ExtendInPlace ==
    /\ pc = "L75"
    /\ total' = 0
    /\ outputs' = Emit(outputs, << "Calculating API Query Combinations",
                                   Repeat("=", 50) >>)
    /\ sources_count' = 0
    /\ iter' = [iter EXCEPT !.package = 0]
    /\ pc' = "L84"
    /\ NVIDIA_DRIVERS' = NVIDIA_DRIVERS \o LRM_PACKAGES
    /\ UNCHANGED << LRM_PACKAGES, BINARY_PACKAGES, UBUNTU_SERIES,
                    OPERATIONS, DATE_FILTERS, EXACT_MATCH, ORDER_BY_DATE,
                    series_sources_count, binaries_count,
                    series_binaries_count, other_endpoints, launchpad_total,
                    grand_total, driver >>

\* lines 75-81: total = 0, the report's heading, sources_count = 0
Start ==
    /\ pc = "L75"
    /\ total' = 0
    /\ outputs' = Emit(outputs, << "Calculating API Query Combinations",
                                   Repeat("=", 50) >>)
    /\ sources_count' = 0
    /\ iter' = [iter EXCEPT !.package = 0]
    /\ pc' = "L84"
    /\ UNCHANGED << lists, series_sources_count, binaries_count,
                    series_binaries_count, other_endpoints, launchpad_total,
                    grand_total, driver >>

\* lines 84-87: the four nested for statements of the global source phase
For84 ==
    /\ For("package", Iterable84, "L84", "L85", "L90", {"date_filter"})
    /\ UNCHANGED << lists, locals, driver, outputs >>

For85 ==
    /\ For("date_filter", DATE_FILTERS, "L85", "L86", "L84", {"exact"})
    /\ UNCHANGED << lists, locals, driver, outputs >>

For86 ==
    /\ For("exact", EXACT_MATCH, "L86", "L87", "L85", {"order"})
    /\ UNCHANGED << lists, locals, driver, outputs >>

For87 ==
    /\ For("order", ORDER_BY_DATE, "L87", "L88", "L86", {})
    /\ UNCHANGED << lists, locals, driver, outputs >>

\* line 88: sources_count += 1
Body88 ==
    /\ Increment(sources_count, "L88", "L87")
    /\ UNCHANGED << lists, iter, total, series_sources_count, binaries_count,
                    series_binaries_count, other_endpoints, launchpad_total,
                    grand_total, driver, outputs >>

\* lines 90-93: the global source count is printed, series_sources_count = 0
Report90 ==
    /\ pc = "L90"
    /\ outputs' = Emit(outputs, << "Global source queries: "
                                   \o ToString(sources_count) >>)
    /\ series_sources_count' = 0
    /\ iter' = [iter EXCEPT !.series = 0]
    /\ pc' = "L94"
    /\ UNCHANGED << lists, total, sources_count, binaries_count,
                    series_binaries_count, other_endpoints, launchpad_total,
                    grand_total, driver >>

\* lines 94-98: the five nested for statements of the series source phase
For94 ==
    /\ For("series", UBUNTU_SERIES, "L94", "L95", "L101", {"package"})
    /\ UNCHANGED << lists, locals, driver, outputs >>

For95 ==
    /\ For("package", Iterable95, "L95", "L96", "L94", {"date_filter"})
    /\ UNCHANGED << lists, locals, driver, outputs >>

For96 ==
    /\ For("date_filter", DATE_FILTERS, "L96", "L97", "L95", {"exact"})
    /\ UNCHANGED << lists, locals, driver, outputs >>

For97 ==
    /\ For("exact", EXACT_MATCH, "L97", "L98", "L96", {"order"})
    /\ UNCHANGED << lists, locals, driver, outputs >>

For98 ==
    /\ For("order", ORDER_BY_DATE, "L98", "L99", "L97", {})
    /\ UNCHANGED << lists, locals, driver, outputs >>

\* line 99: series_sources_count += 1
Body99 ==
    /\ Increment(series_sources_count, "L99", "L98")
    /\ UNCHANGED << lists, iter, total, sources_count, binaries_count,
                    series_binaries_count, other_endpoints, launchpad_total,
                    grand_total, driver, outputs >>

\* slip: binaries_count = 0 is missing
Report101_NoInit ==
    /\ pc = "L101"
    /\ outputs' = Emit(outputs, << "Series-specific source queries: "
                                   \o ToString(series_sources_count) >>)
    /\ iter' = [iter EXCEPT !.package = 0]
    /\ pc' = "L107"
    /\ UNCHANGED << lists, total, sources_count, series_sources_count,
                    binaries_count,
                    series_binaries_count, other_endpoints, launchpad_total,
                    grand_total, driver >>

\* lines 101-104: the series source count is printed, binaries_count = 0
Report101 ==
    /\ pc = "L101"
    /\ outputs' = Emit(outputs, << "Series-specific source queries: "
                                   \o ToString(series_sources_count) >>)
    /\ binaries_count' = 0
    /\ iter' = [iter EXCEPT !.package = 0]
    /\ pc' = "L107"
    /\ UNCHANGED << lists, total, sources_count, series_sources_count,
                    series_binaries_count, other_endpoints, launchpad_total,
                    grand_total, driver >>

\* lines 107-108: the two nested for statements of the global binary phase
For107 ==
    /\ For("package", BINARY_PACKAGES, "L107", "L108", "L111", {"exact"})
    /\ UNCHANGED << lists, locals, driver, outputs >>

For108 ==
    /\ For("exact", Iterable108, "L108", "L109", "L107", {})
    /\ UNCHANGED << lists, locals, driver, outputs >>

\* line 109: binaries_count += 1
Body109 ==
    /\ Increment(binaries_count, "L109", "L108")
    /\ UNCHANGED << lists, iter, total, sources_count, series_sources_count,
                    series_binaries_count, other_endpoints, launchpad_total,
                    grand_total, driver, outputs >>

\* slip: series_binaries_count starts from binaries_count instead of 0
Report111_CopyCount ==
    /\ pc = "L111"
    /\ outputs' = Emit(outputs, << "Global binary queries: "
                                   \o ToString(binaries_count) >>)
    /\ series_binaries_count' = binaries_count
    /\ iter' = [iter EXCEPT !.series = 0]
    /\ pc' = "L115"
    /\ UNCHANGED << lists, total, sources_count, series_sources_count,
                    binaries_count, other_endpoints, launchpad_total,
                    grand_total, driver >>

\* lines 111-114: the global binary count is printed,
\* series_binaries_count = 0
Report111 ==
    /\ pc = "L111"
    /\ outputs' = Emit(outputs, << "Global binary queries: "
                                   \o ToString(binaries_count) >>)
    /\ series_binaries_count' = 0
    /\ iter' = [iter EXCEPT !.series = 0]
    /\ pc' = "L115"
    /\ UNCHANGED << lists, total, sources_count, series_sources_count,
                    binaries_count, other_endpoints, launchpad_total,
                    grand_total, driver >>

\* lines 115-117: the three nested for statements of the series binary phase
For115 ==
    /\ For("series", UBUNTU_SERIES, "L115", "L116", "L120", {"package"})
    /\ UNCHANGED << lists, locals, driver, outputs >>

For116 ==
    /\ For("package", BINARY_PACKAGES, "L116", "L117", "L115", {"exact"})
    /\ UNCHANGED << lists, locals, driver, outputs >>

For117 ==
    /\ For("exact", Iterable117, "L117", "L118", "L116", {})
    /\ UNCHANGED << lists, locals, driver, outputs >>

\* line 118: series_binaries_count += 1
Body118 ==
    /\ Increment(series_binaries_count, "L118", "L117")
    /\ UNCHANGED << lists, iter, total, sources_count, series_sources_count,
                    binaries_count, other_endpoints, launchpad_total,
                    grand_total, driver, outputs >>

\* lines 120-134: the series binary count is printed; other_endpoints is
\* set to 0, then grows by len(UBUNTU_SERIES), by 1 and by 2, and is printed
Other120 ==
    /\ pc = "L120"
    /\ LET o132 == OtherEndpoints(UBUNTU_SERIES)
       IN  /\ other_endpoints' = o132
           /\ outputs' = Emit(outputs,
                  << "Series-specific binary queries: "
                        \o ToString(series_binaries_count),
                     "Other API endpoints: " \o ToString(o132) >>)
    /\ pc' = "L137"
    /\ UNCHANGED << lists, iter, total, sources_count, series_sources_count,
                    binaries_count, series_binaries_count, launchpad_total,
                    grand_total, driver >>

\* lines 137-152: the two totals, then the summary and the breakdown
Totals137 ==
    /\ pc = "L137"
    /\ LET lp == LaunchpadTotal(sources_count, series_sources_count,
                                binaries_count, series_binaries_count)
           gt == GrandTotal(lp, other_endpoints)
       IN  /\ launchpad_total' = lp
           /\ grand_total' = gt
           /\ outputs' = Emit(outputs,
                  << "\nSUMMARY",
                     Repeat("=", 30),
                     "Launchpad API queries: " \o FormatComma(lp),
                     "Other API endpoints: " \o ToString(other_endpoints),
                     "TOTAL COMBINATIONS: " \o FormatComma(gt),
                     "\nBREAKDOWN:",
                     "   NVIDIA driver packages: "
                        \o ToString(Len(NVIDIA_DRIVERS)),
                     "   LRM packages: " \o ToString(Len(LRM_PACKAGES)),
                     "   Binary packages: "
                        \o ToString(Len(BINARY_PACKAGES)),
                     "   Ubuntu series: " \o ToString(Len(UBUNTU_SERIES)),
                     "   Parameter combinations: " \o ToString(2 ^ 3)
                        \o " (date, exact, order)" >>)
    /\ pc' = "L155"
    /\ UNCHANGED << lists, iter, total, sources_count, series_sources_count,
                    binaries_count, series_binaries_count, other_endpoints,
                    driver >>

\* the two lines of the confirming message (lines 156-157)
ConfirmLines(gt) ==
    << "\nThis explains the '888+' reference!",
       "   The application can make " \o FormatComma(gt)
          \o " different API queries" >>

\* the two lines of the denying message (lines 159-160)
DenyLines(gt) ==
    << "\nTotal (" \o ToString(gt) \o ") is less than 888",
       "   There may be additional query patterns not accounted for" >>

\* slip: > instead of >=
MeetsThreshold_Strict(gt) == gt > THRESHOLD

\* line 155: the condition of the threshold check
MeetsThreshold(gt) == gt >= THRESHOLD

\* lines 155-160: the threshold check prints one of the two messages
Threshold155 ==
    /\ pc = "L155"
    /\ outputs' = Emit(outputs, IF MeetsThreshold(grand_total)
                                   THEN ConfirmLines(grand_total)
                                   ELSE DenyLines(grand_total))
    /\ pc' = "L162"
    /\ UNCHANGED << lists, iter, locals, driver >>

\* line 162: return grand_total; the frame and its locals are gone
Return162 ==
    /\ pc = "L162"
    /\ returns' = Append(returns, grand_total)
    /\ total' = Unbound
    /\ sources_count' = Unbound
    /\ series_sources_count' = Unbound
    /\ binaries_count' = Unbound
    /\ series_binaries_count' = Unbound
    /\ other_endpoints' = Unbound
    /\ launchpad_total' = Unbound
    /\ grand_total' = Unbound
    /\ iter' = NoIter
    /\ pc' = "idle"
    /\ UNCHANGED << lists, calls, grown, outputs >>

\* one statement (or straight-line group) of calculate_combinations
Statement ==
    \/ Start
    \/ For84
    \/ For85
    \/ For86
    \/ For87
    \/ Body88
    \/ Report90
    \/ For94
    \/ For95
    \/ For96
    \/ For97
    \/ For98
    \/ Body99
    \/ Report101
    \/ For107
    \/ For108
    \/ Body109
    \/ Report111
    \/ For115
    \/ For116
    \/ For117
    \/ Body118
    \/ Other120
    \/ Totals137
    \/ Threshold155
    \/ Return162

Next ==
    \/ Invoke
    \/ Grow
    \/ Statement

Spec == Init /\ [][Next]_vars

\* the interpreter runs the next statement of a call in progress; the driver
\* is free to stop calling
FairSpec == FairInit /\ [][Next]_vars /\ WF_vars(Statement)

(* ---------------- properties ---------------- *)

\* the module-level lists hold the script's literal data
LiteralLists ==
    /\ NVIDIA_DRIVERS = LIT_NVIDIA_DRIVERS
    /\ LRM_PACKAGES = LIT_LRM_PACKAGES
    /\ BINARY_PACKAGES = LIT_BINARY_PACKAGES
    /\ UBUNTU_SERIES = LIT_UBUNTU_SERIES

\* the last two lines the call in progress has printed
LastTwoLines ==
    LET out == outputs[calls]
    IN  SubSeq(out, Len(out) - 1, Len(out))

\* C1: with the literal lists (15, 8, 15 and 10 elements) the call computes
\* global_source = 184, series_source = 1840, global_binary = 30,
\* series_binary = 300, other_endpoints = 13, launchpad_total = 2354 and
\* grand_total = 2367, prints the message that confirms the total meets the
\* threshold, and returns exactly 2367.
C1_LiteralTotals ==
    /\ LiteralLists =>
          /\ Len(NVIDIA_DRIVERS) = 15
          /\ Len(LRM_PACKAGES) = 8
          /\ Len(BINARY_PACKAGES) = 15
          /\ Len(UBUNTU_SERIES) = 10
    /\ (LiteralLists /\ pc = "L162") =>
          /\ sources_count = 184
          /\ series_sources_count = 1840
          /\ binaries_count = 30
          /\ series_binaries_count = 300
          /\ other_endpoints = 13
          /\ launchpad_total = 2354
          /\ grand_total = 2367
          /\ LastTwoLines =
                << "\nThis explains the '888+' reference!",
                   "   The application can make 2,367 different API queries" >>
    /\ (LiteralLists /\ pc = "idle") =>
          \A i \in 1..Len(returns) : returns[i] = 2367

C1_Witness ==
    /\ LiteralLists
    /\ pc = "idle"
    /\ Len(returns) = 1
    /\ returns[1] = 2367

\* C2: when the nested loop of the global source phase has finished,
\* sources_count is (a + b) * 8, where a and b are the sizes of the driver
\* and kernel-module lists and 8 is the product of the sizes of the three
\* two-valued flag lists.
C2_GlobalSourceCount ==
    pc = "L90" =>
       /\ sources_count = (Len(NVIDIA_DRIVERS) + Len(LRM_PACKAGES)) * 8
       /\ Len(DATE_FILTERS) * Len(EXACT_MATCH) * Len(ORDER_BY_DATE) = 8

C2_Witness ==
    /\ pc = "L90"
    /\ Len(NVIDIA_DRIVERS) = 2
    /\ Len(LRM_PACKAGES) = 1
    /\ sources_count = 24

\* C3: when the nested loop of the series source phase has finished,
\* series_sources_count is d * (a + b) * 8, which is d times the global
\* source count (d the size of the release list).
C3_SeriesSourceCount ==
    pc = "L101" =>
       /\ series_sources_count =
             Len(UBUNTU_SERIES) * (Len(NVIDIA_DRIVERS) + Len(LRM_PACKAGES)) * 8
       /\ series_sources_count = Len(UBUNTU_SERIES) * sources_count

C3_Witness ==
    /\ pc = "L101"
    /\ Len(UBUNTU_SERIES) = 2
    /\ Len(NVIDIA_DRIVERS) = 1
    /\ Len(LRM_PACKAGES) = 2
    /\ series_sources_count = 48

\* C4: the binary phases count the exact-match dimension only: when the
\* global binary loop has finished binaries_count is c * 2, and when the
\* series binary loop has finished series_binaries_count is d * c * 2
\* (c the size of the binary list, d the size of the release list).
C4_BinaryCounts ==
    /\ pc = "L111" => binaries_count = Len(BINARY_PACKAGES) * 2
    /\ pc = "L120" =>
          /\ binaries_count = Len(BINARY_PACKAGES) * 2
          /\ series_binaries_count =
                Len(UBUNTU_SERIES) * Len(BINARY_PACKAGES) * 2

C4_Witness ==
    /\ pc = "L120"
    /\ Len(BINARY_PACKAGES) = 2
    /\ Len(UBUNTU_SERIES) = 2
    /\ binaries_count = 4
    /\ series_binaries_count = 8

\* C5: once the other endpoints are counted, other_endpoints is d + 3 (one
\* per release, one vendor endpoint, two kernel endpoints), whatever the
\* sizes of the package lists and of the flag lists.
C5_OtherEndpoints ==
    pc \in {"L137", "L155", "L162"} =>
       other_endpoints = Len(UBUNTU_SERIES) + 3

C5_Witness ==
    /\ pc = "L137"
    /\ Len(UBUNTU_SERIES) = 2
    /\ Len(NVIDIA_DRIVERS) = 2
    /\ other_endpoints = 5

\* calls i and j ran on the same lists (no element was added between them)
SameInputs(i, j) ==
    \/ grown[1] = "none"
    \/ (i <= grown[2]) <=> (j <= grown[2])

\* call i ran before, and call j after, the driver added an element
GrownBetween(i, j) ==
    /\ grown[1] # "none"
    /\ i <= grown[2]
    /\ grown[2] < j

\* C6: the value returned is global source + series source + global binary
\* + series binary + other endpoints, launchpad_total being the sum of the
\* first four; and a call made after one list has grown by one element
\* never returns less than a call made before.
C6_GrandTotalSum ==
    /\ [](pc \in {"L155", "L162"} =>
            /\ launchpad_total = sources_count + series_sources_count
                                    + binaries_count + series_binaries_count
            /\ grand_total = sources_count + series_sources_count
                                + binaries_count + series_binaries_count
                                + other_endpoints)
    /\ [][pc = "L162" =>
             returns' = Append(returns,
                           sources_count + series_sources_count
                              + binaries_count + series_binaries_count
                              + other_endpoints)]_vars
    /\ [](\A i, j \in 1..Len(returns) :
             GrownBetween(i, j) => returns[i] <= returns[j])

C6_Witness ==
    /\ Len(returns) = 2
    /\ grown = << "binary", 1 >>
    /\ Len(BINARY_PACKAGES) = 2
    /\ Len(UBUNTU_SERIES) = 1
    /\ returns[2] = returns[1] + 4

\* the lines of a call's output that report the five counts
LineGlobalSource == 3

LineSeriesSource == 4

LineGlobalBinary == 5

LineSeriesBinary == 6

LineOther == 7

\* the lines with these numbers are the same in the outputs of calls i and j
SameLines(i, j, ns) == \A n \in ns : outputs[i][n] = outputs[j][n]

\* C7: an empty list zeroes the phases that depend on it alone and leaves
\* the others as they are.  With no binary package both binary counts are 0;
\* with no release both series counts are 0 and other_endpoints is 3; with
\* no driver, or no kernel-module package, no phase is zeroed by that alone.
\* The phases that do not read the list report the same counts as in a call
\* where the list has one element, and no run with an empty list fails.
C7_EmptyLists ==
    /\ (pc = "L162" /\ Len(BINARY_PACKAGES) = 0) =>
          /\ binaries_count = 0
          /\ series_binaries_count = 0
          /\ sources_count =
                (Len(NVIDIA_DRIVERS) + Len(LRM_PACKAGES)) * 8
          /\ series_sources_count =
                Len(UBUNTU_SERIES)
                   * (Len(NVIDIA_DRIVERS) + Len(LRM_PACKAGES)) * 8
          /\ other_endpoints = Len(UBUNTU_SERIES) + 3
    /\ (pc = "L162" /\ Len(UBUNTU_SERIES) = 0) =>
          /\ series_sources_count = 0
          /\ series_binaries_count = 0
          /\ sources_count =
                (Len(NVIDIA_DRIVERS) + Len(LRM_PACKAGES)) * 8
          /\ binaries_count = Len(BINARY_PACKAGES) * 2
          /\ other_endpoints = 3
    /\ (pc = "L162" /\ Len(NVIDIA_DRIVERS) = 0) =>
          /\ sources_count = Len(LRM_PACKAGES) * 8
          /\ series_sources_count =
                Len(UBUNTU_SERIES) * Len(LRM_PACKAGES) * 8
          /\ binaries_count = Len(BINARY_PACKAGES) * 2
          /\ series_binaries_count =
                Len(UBUNTU_SERIES) * Len(BINARY_PACKAGES) * 2
          /\ other_endpoints = Len(UBUNTU_SERIES) + 3
    /\ (pc = "L162" /\ Len(LRM_PACKAGES) = 0) =>
          /\ sources_count = Len(NVIDIA_DRIVERS) * 8
          /\ series_sources_count =
                Len(UBUNTU_SERIES) * Len(NVIDIA_DRIVERS) * 8
          /\ binaries_count = Len(BINARY_PACKAGES) * 2
          /\ series_binaries_count =
                Len(UBUNTU_SERIES) * Len(BINARY_PACKAGES) * 2
          /\ other_endpoints = Len(UBUNTU_SERIES) + 3
    /\ \A i, j \in 1..Len(returns) :
          GrownBetween(i, j) =>
             /\ (grown[1] = "binary" /\ Len(BINARY_PACKAGES) = 1) =>
                   SameLines(i, j, {LineGlobalSource, LineSeriesSource,
                                    LineOther})
             /\ (grown[1] = "series" /\ Len(UBUNTU_SERIES) = 1) =>
                   SameLines(i, j, {LineGlobalSource, LineGlobalBinary})
             /\ (grown[1] = "drivers" /\ Len(NVIDIA_DRIVERS) = 1) =>
                   SameLines(i, j, {LineGlobalBinary, LineSeriesBinary,
                                    LineOther})
             /\ (grown[1] = "lrm" /\ Len(LRM_PACKAGES) = 1) =>
                   SameLines(i, j, {LineGlobalBinary, LineSeriesBinary,
                                    LineOther})
    /\ (\/ Len(NVIDIA_DRIVERS) = 0
        \/ Len(LRM_PACKAGES) = 0
        \/ Len(BINARY_PACKAGES) = 0
        \/ Len(UBUNTU_SERIES) = 0) => pc # "failed"

C7_Witness ==
    /\ pc = "L162"
    /\ Len(UBUNTU_SERIES) = 0
    /\ Len(NVIDIA_DRIVERS) = 2
    /\ Len(BINARY_PACKAGES) = 2
    /\ series_sources_count = 0
    /\ series_binaries_count = 0
    /\ sources_count > 0
    /\ binaries_count > 0

\* C8: two calls on unchanged lists return the same grand total and print
\* the same lines; no step of a call changes a module-level list; and a call
\* starts with no local bound, so that no counter of an earlier call is
\* carried into it.
C8_Idempotent ==
    /\ [](\A i, j \in 1..Len(returns) :
             SameInputs(i, j) =>
                /\ returns[i] = returns[j]
                /\ outputs[i] = outputs[j])
    /\ [][(pc # "idle" \/ pc' # "idle") => UNCHANGED lists]_vars
    /\ [](pc = "L75" => \A n \in 1..Len(locals) : locals[n] = Unbound)

C8_Witness ==
    /\ LiteralLists
    /\ grown[1] = "none"
    /\ returns = << 2367, 2367 >>
    /\ outputs[1] = outputs[2]
    /\ Len(outputs[2]) = 20

\* the phase a line of the function belongs to, in the order of the source
Phase(p) ==
    CASE p = "idle" -> 0
      [] p = "L75" -> 1
      [] p \in {"L84", "L85", "L86", "L87", "L88", "L90"} -> 2
      [] p \in {"L94", "L95", "L96", "L97", "L98", "L99", "L101"} -> 3
      [] p \in {"L107", "L108", "L109", "L111"} -> 4
      [] p \in {"L115", "L116", "L117", "L118"} -> 5
      [] p = "L120" -> 6
      [] p = "L137" -> 7
      [] p = "L155" -> 8
      [] p = "L162" -> 9
      [] OTHER -> 10

\* C9: every call terminates: it never fails, it goes through the phases in
\* the order global source, series source, global binary, series binary,
\* other endpoints, totals, threshold check, and it reaches the state where
\* it has returned a grand total.
C9_Terminates ==
    /\ [](pc # "failed")
    /\ [][Phase(pc') = Phase(pc) \/ Phase(pc') = (Phase(pc) + 1) % 10]_vars
    /\ \A n \in 1..MaxCalls :
          (pc = "L75" /\ calls = n) ~> (pc = "idle" /\ Len(returns) = n)

C9_Witness ==
    /\ pc = "idle"
    /\ LiteralLists
    /\ calls = 1
    /\ returns = << 2367 >>

\* C10: the threshold check prints the confirming message exactly when
\* grand_total >= 888 and the denying message exactly when grand_total < 888,
\* one of the two in every call; it leaves grand_total as it is, and the call
\* returns grand_total on either branch.
C10_ThresholdMessage ==
    /\ [](pc = "L162" =>
            LET out == outputs[calls]
                confirm == "\nThis explains the '888+' reference!"
                deny == "\nTotal (" \o ToString(grand_total)
                           \o ") is less than 888"
            IN  /\ (\E n \in 1..Len(out) : out[n] = confirm)
                      <=> grand_total >= 888
                /\ (\E n \in 1..Len(out) : out[n] = deny)
                      <=> grand_total < 888
                /\ Cardinality({n \in 1..Len(out) :
                                   out[n] \in {confirm, deny}}) = 1)
    /\ [][pc = "L155" => grand_total' = grand_total]_vars
    /\ [][pc = "L162" => returns' = Append(returns, grand_total)]_vars

C10_Witness ==
    /\ pc = "L162"
    /\ grand_total = 888
    /\ outputs[calls][Len(outputs[calls]) - 1] =
          "\nThis explains the '888+' reference!"

C10_WitnessDeny ==
    /\ pc = "L162"
    /\ grand_total = 887
    /\ outputs[calls][Len(outputs[calls]) - 1] =
          "\nTotal (887) is less than 888"

====
